---- MODULE Spec2Model ----
(***************************************************************************)
(* Selection-and-sort state machine of the Chonky FileBrowser component    *)
(* (src/src/FileBrowser.tsx).                                              *)
(*                                                                         *)
(* Representation of JavaScript values:                                    *)
(*   - an array is a sequence; JavaScript index i is element i + 1;        *)
(*   - an optional value (x | undefined) is <<>> when absent and <<x>>     *)
(*     when present (folderChain, previousSelectionIndex, option bags);    *)
(*   - a null placeholder in a file array is the record Null;              *)
(*   - an object is identified with its record value: the host objects are *)
(*     taken from fixed pools with one object per id, so reference         *)
(*     equality (===) and value equality coincide;                         *)
(*   - a Selection ({[id]: true}) is the set of its keys.                  *)
(***************************************************************************)
EXTENDS Integers, Sequences, FiniteSets, TLC

VARIABLES props, state, pc, prevProps, prevState, last, calls

vars == <<props, state, pc, prevProps, prevState, last, calls>>

----------------------------------------------------------------------------
(* Bounds of the host inputs *)

MaxFiles == 3

MaxChain == 2

----------------------------------------------------------------------------
(* JavaScript values *)

Undefined == <<>>

Some(x) == <<x>>

Null == [nil |-> TRUE]

(* isNil / isObject of a nullable object, isNumber / isArray / isString of  *)
(* an optional value                                                       *)
isNil(x) == x = Null

isObject(x) == x # Null

isNumber(x) == x # Undefined

isArray(x) == x # Undefined

isString(x) == x # Undefined

Min(a, b) == IF a < b THEN a ELSE b

Max(a, b) == IF a > b THEN a ELSE b

(* array[i] of JavaScript: undefined outside the array *)
At(array, i) == IF i >= 0 /\ i < Len(array) THEN array[i + 1] ELSE Null

----------------------------------------------------------------------------
(* Typedef enums *)

SelectionType == {"Single", "Multiple", "Range"}

SelectionStatus == {"Ok", "NeedsCleaning", "NeedsResetting"}

SortOrders == {"Asc", "Desc"}

SortProperties == {"Name", "Size"}

OptionNames == {"ShowHidden", "FoldersFirst", "ShowExtensions", "ConfirmDeletions", "DisableSelection"}

----------------------------------------------------------------------------
(* Host objects *)

FileData(id, name, isDir, size, selectable, openable) ==
    [id |-> id, name |-> name, isDir |-> isDir, size |-> size,
     selectable |-> selectable, openable |-> openable]

(* the files the host lists (name is the collation rank of the file name): *)
(* file 2 cannot be selected, file 3 is a directory that cannot be opened  *)
FilePool ==
    { FileData(1, 2, FALSE, 30, TRUE, TRUE),
      FileData(2, 1, FALSE, 10, FALSE, TRUE),
      FileData(3, 3, TRUE, 20, TRUE, FALSE) }

(* the folders of the breadcrumb: folder 12 cannot be opened *)
FolderPool ==
    { FileData(11, 1, TRUE, 0, TRUE, TRUE),
      FileData(12, 2, TRUE, 0, TRUE, FALSE) }

FileIds == {f.id : f \in FilePool}

NoRepeat(s) == \A i, j \in 1..Len(s) : (i # j /\ s[i] # Null) => s[i] # s[j]

SeqsUpTo(S, n) == UNION {[1..k -> S] : k \in 0..n}

(* file arrays of the host: distinct files in listing order, followed by   *)
(* at most one loading placeholder                                         *)
HostFileLists ==
    { s \in SeqsUpTo(FilePool \cup {Null}, MaxFiles) :
        /\ NoRepeat(s)
        /\ \A i \in 1..Len(s) : s[i] = Null => i = Len(s)
        /\ \A i, j \in 1..Len(s) : (i < j /\ s[j] # Null) => s[i].id < s[j].id }

(* folder chains of the host: absent, or distinct folders root first *)
HostFolderChains ==
    {Undefined} \cup {Some(s) : s \in {t \in SeqsUpTo(FolderPool, MaxChain) : NoRepeat(t)}}

----------------------------------------------------------------------------
(* Helpers of Util and FileUtil *)

(* shallow-equal: same reference, or arrays of the same length whose       *)
(* elements are pairwise identical                                         *)
shallowEqualArrays(arrA, arrB) ==
    IF arrA = arrB THEN TRUE
    ELSE IF arrA = Undefined \/ arrB = Undefined THEN FALSE
    ELSE /\ Len(arrA[1]) = Len(arrB[1])
         /\ \A i \in 1..Len(arrA[1]) : arrA[1][i] = arrB[1][i]

shallowEqualObjects(objA, objB) ==
    /\ DOMAIN objA = DOMAIN objB
    /\ \A k \in DOMAIN objA : objA[k] = objB[k]

(* Util.getNonNil: the element at index (negative counts from the end), or *)
(* null when the array is absent, the index is outside it or the element   *)
(* is nil                                                                  *)
getNonNil(array, index) ==
    IF array = Undefined THEN Null
    ELSE LET i == IF index < 0 THEN Len(array[1]) + index ELSE index
         IN  At(array[1], i)

(* Util.clampIndex: the index moved into the bounds of the array,          *)
(* undefined when the array is empty                                       *)
clampIndex(index, array) ==
    IF Len(array) = 0 THEN Undefined
    ELSE Some(Max(0, Min(index, Len(array) - 1)))

SortKey(file, sortProperty) == IF sortProperty = "Name" THEN file.name ELSE file.size

(* comparator of FileUtil.sortFiles: folders first when the option is set, *)
(* then the sort property, ties by id; the order reverses only the latter  *)
FileBefore(a, b, options, sortProperty, sortOrder) ==
    IF options["FoldersFirst"] /\ a.isDir # b.isDir THEN a.isDir
    ELSE LET asc == IF SortKey(a, sortProperty) # SortKey(b, sortProperty)
                    THEN SortKey(a, sortProperty) < SortKey(b, sortProperty)
                    ELSE a.id < b.id
         IN  IF sortOrder = "Asc" THEN asc ELSE ~asc

(* FileUtil.sortFiles: the non-null files in comparator order followed by  *)
(* the placeholders, and the map from file id to index in that order       *)
sortFiles(rawFiles, options, sortProperty, sortOrder) ==
    LET files == {rawFiles[i] : i \in 1..Len(rawFiles)} \ {Null}
        nulls == Cardinality({i \in 1..Len(rawFiles) : rawFiles[i] = Null})
        rank(f) == Cardinality({g \in files \ {f} : FileBefore(g, f, options, sortProperty, sortOrder)})
        sortedFiles == [i \in 1..(Cardinality(files) + nulls) |->
                          IF i <= Cardinality(files)
                          THEN CHOOSE f \in files : rank(f) = i - 1
                          ELSE Null]
        fileIndexMap == [id \in {f.id : f \in files} |->
                          (CHOOSE i \in 1..Len(sortedFiles) :
                              sortedFiles[i] # Null /\ sortedFiles[i].id = id) - 1]
    IN  <<sortedFiles, fileIndexMap>>

----------------------------------------------------------------------------
(* Component construction *)

DefaultOptions == [k \in OptionNames |-> TRUE]

(* {...a, ...b}: the keys of the partial bag b override those of a *)
Spread(a, b) == [k \in DOMAIN a \cup DOMAIN b |-> IF k \in DOMAIN b THEN b[k] ELSE a[k]]

constructor(p) ==
    LET options == IF p.options = Undefined THEN DefaultOptions
                   ELSE Spread(DefaultOptions, p.options[1].values)
        sortProperty == IF p.sortProperty # Undefined THEN p.sortProperty[1] ELSE "Name"
        sortOrder == IF p.sortOrder # Undefined THEN p.sortOrder[1] ELSE "Asc"
        sorted == sortFiles(p.files, options, sortProperty, sortOrder)
    IN  [rawFiles |-> p.files,
         folderChain |-> p.folderChain,
         sortedFiles |-> sorted[1],
         fileIndexMap |-> sorted[2],
         previousSelectionIndex |-> Undefined,
         selection |-> {},
         view |-> IF p.view # Undefined THEN p.view[1] ELSE "Details",
         options |-> options,
         sortProperty |-> sortProperty,
         sortOrder |-> sortOrder]

----------------------------------------------------------------------------
(* Bookkeeping of the event being processed *)

(* the host callbacks invoked while the current event is processed, each   *)
(* with the arguments of its calls in order                                *)
NoCalls ==
    [onSelectionChange |-> <<>>, onFileOpen |-> <<>>,
     onFileSingleClick |-> <<>>, onFileDoubleClick |-> <<>>]

(* The event being processed: the entry point (op), the key of a key-down  *)
(* and the element that had the focus (elem),                              *)
(* the click handler entered and what the host's handler did (result), the *)
(* SelectionType and display index handed to handleSelectionToggle, the    *)
(* selectionStatus of a prop update, the selection and anchor the event    *)
(* started from, whether the host's onSelectionChange and onFileOpen props *)
(* are functions, and the number of re-sorts made while processing it.     *)
EventOf(op) ==
    [op |-> op, key |-> "None", handler |-> "None", result |-> "absent",
     type |-> "None", index |-> Undefined, status |-> "None", elem |-> Null,
     selection |-> state.selection, anchor |-> state.previousSelectionIndex,
     onSelectionChange |-> FALSE, onFileOpen |-> FALSE, resorts |-> 0]

(* no event is being processed *)
NoEvent ==
    [op |-> "None", key |-> "None", handler |-> "None", result |-> "absent",
     type |-> "None", index |-> Undefined, status |-> "None", elem |-> Null,
     selection |-> {}, anchor |-> Undefined,
     onSelectionChange |-> FALSE, onFileOpen |-> FALSE, resorts |-> 0]

(* prevProps and prevState are the arguments of the componentDidUpdate to  *)
(* come: <<the props>> before the update being made and <<the fields of    *)
(* the state before it that componentDidUpdate reads>>; both are absent    *)
(* outside an update                                                       *)
NoPrev == <<>>

SortInputs(st) ==
    [rawFiles |-> st.rawFiles, options |-> st.options,
     sortProperty |-> st.sortProperty, sortOrder |-> st.sortOrder]

----------------------------------------------------------------------------
(* Prop updates *)

(* variant: a file-list change wins over a folder change *)
ComputeSelectionStatus_CleaningFirst(old, nextProps) ==
    IF ~shallowEqualArrays(Some(nextProps.files), Some(old.files)) THEN "NeedsCleaning"
    ELSE IF \/ /\ ~shallowEqualArrays(nextProps.folderChain, old.folderChain)
               /\ \/ ~isArray(nextProps.folderChain)
                  \/ getNonNil(nextProps.folderChain, -1) # getNonNil(old.folderChain, -1)
            \/ nextProps.disableSelection = TRUE /\ nextProps.disableSelection # old.disableSelection
    THEN "NeedsResetting" ELSE "Ok"

(* variant: every change of the folder chain resets *)
ComputeSelectionStatus_AnyChainChange(old, nextProps) ==
    IF \/ ~shallowEqualArrays(nextProps.folderChain, old.folderChain)
       \/ nextProps.disableSelection = TRUE /\ nextProps.disableSelection # old.disableSelection
    THEN "NeedsResetting"
    ELSE IF ~shallowEqualArrays(Some(nextProps.files), Some(old.files)) THEN "NeedsCleaning"
    ELSE "Ok"

(* variant: disableSelection is not consulted *)
ComputeSelectionStatus_IgnoreDisable(old, nextProps) ==
    IF /\ ~shallowEqualArrays(nextProps.folderChain, old.folderChain)
       /\ \/ ~isArray(nextProps.folderChain)
          \/ getNonNil(nextProps.folderChain, -1) # getNonNil(old.folderChain, -1)
    THEN "NeedsResetting"
    ELSE IF ~shallowEqualArrays(Some(nextProps.files), Some(old.files)) THEN "NeedsCleaning"
    ELSE "Ok"

(* selectionStatus computed by UNSAFE_componentWillReceiveProps *)
ComputeSelectionStatus(old, nextProps) ==
    LET s1 == IF ~shallowEqualArrays(Some(nextProps.files), Some(old.files))
              THEN "NeedsCleaning" ELSE "Ok"
        s2 == IF /\ ~shallowEqualArrays(nextProps.folderChain, old.folderChain)
                 /\ \/ ~isArray(nextProps.folderChain)
                    \/ getNonNil(nextProps.folderChain, -1) # getNonNil(old.folderChain, -1)
              THEN "NeedsResetting" ELSE s1
    IN  IF nextProps.disableSelection = TRUE /\ nextProps.disableSelection # old.disableSelection
        THEN "NeedsResetting" ELSE s2

(* variant: the selectable flag is not consulted *)
CleanSelection_IgnoreSelectable(files, oldSelection) ==
    {files[i].id : i \in {j \in 1..Len(files) :
        isObject(files[j]) /\ files[j].id \in oldSelection}}

(* the selection built by the NeedsCleaning updater from the files of      *)
(* prevState and the old selection                                         *)
CleanSelection(files, oldSelection) ==
    {files[i].id : i \in {j \in 1..Len(files) :
        /\ isObject(files[j])
        /\ files[j].id \in oldSelection
        /\ files[j].selectable # FALSE}}

(* variant: the previous selection index is carried over as it is *)
CleanIndex_Keep(files, prevIndex) == prevIndex

(* previousSelectionIndex built by the NeedsCleaning updater *)
CleanIndex(files, prevIndex) ==
    IF isNumber(prevIndex) THEN clampIndex(prevIndex[1], files) ELSE Undefined

(* the state after the setState calls of UNSAFE_componentWillReceiveProps  *)
(* have been applied in order to the state prev                            *)
ReceivePropsState(old, nextProps, prev, selectionStatus) ==
    LET s1 == IF ~shallowEqualArrays(Some(nextProps.files), Some(old.files))
              THEN [prev EXCEPT !.rawFiles = nextProps.files] ELSE prev
        s2 == IF ~shallowEqualArrays(nextProps.folderChain, old.folderChain)
              THEN [s1 EXCEPT !.folderChain = nextProps.folderChain] ELSE s1
        s3 == IF nextProps.view # Undefined /\ nextProps.view # old.view
              THEN [s2 EXCEPT !.view = nextProps.view[1]] ELSE s2
        s4 == IF nextProps.options # Undefined /\ nextProps.options # old.options
              THEN [s3 EXCEPT !.options = Spread(s3.options, nextProps.options[1].values)] ELSE s3
        s5 == IF nextProps.sortProperty # Undefined /\ nextProps.sortProperty # old.sortProperty
              THEN [s4 EXCEPT !.sortProperty = nextProps.sortProperty[1]] ELSE s4
        s6 == IF nextProps.sortOrder # Undefined /\ nextProps.sortOrder # old.sortOrder
              THEN [s5 EXCEPT !.sortOrder = nextProps.sortOrder[1]] ELSE s5
    IN  CASE selectionStatus = "NeedsResetting" ->
                [s6 EXCEPT !.selection = {}, !.previousSelectionIndex = Undefined]
          [] selectionStatus = "NeedsCleaning" ->
                [s6 EXCEPT !.selection = CleanSelection(s6.rawFiles, s6.selection),
                           !.previousSelectionIndex =
                               CleanIndex(s6.rawFiles, s6.previousSelectionIndex)]
          [] OTHER -> s6

(* variant: a cleaning that prunes nothing is not reported to the host *)
UNSAFE_componentWillReceiveProps_QuietCleaning(nextProps, hasOnSelectionChange) ==
    LET selectionStatus == ComputeSelectionStatus(props, nextProps)
        newState == ReceivePropsState(props, nextProps, state, selectionStatus)
    IN  /\ props' = nextProps
        /\ state' = newState
        /\ calls' = IF /\ selectionStatus # "Ok"
                       /\ newState.selection # state.selection
                       /\ hasOnSelectionChange
                    THEN [NoCalls EXCEPT !.onSelectionChange = <<newState.selection>>]
                    ELSE NoCalls
        /\ last' = [EventOf("props") EXCEPT !.status = selectionStatus,
                                            !.onSelectionChange = hasOnSelectionChange]
        /\ prevProps' = Some(props)
        /\ prevState' = Some(SortInputs(state))
        /\ pc' = "didUpdate"

(* The host re-renders the component with nextProps; hasOnSelectionChange  *)
(* tells whether nextProps.onSelectionChange is a function.  The updaters  *)
(* queued by the handler are applied before the render that follows.       *)
UNSAFE_componentWillReceiveProps(nextProps, hasOnSelectionChange) ==
    LET selectionStatus == ComputeSelectionStatus(props, nextProps)
        newState == ReceivePropsState(props, nextProps, state, selectionStatus)
    IN  /\ props' = nextProps
        /\ state' = newState
        /\ calls' = IF selectionStatus # "Ok" /\ hasOnSelectionChange
                    THEN [NoCalls EXCEPT !.onSelectionChange = <<newState.selection>>]
                    ELSE NoCalls
        /\ last' = [EventOf("props") EXCEPT !.status = selectionStatus,
                                            !.onSelectionChange = hasOnSelectionChange]
        /\ prevProps' = Some(props)
        /\ prevState' = Some(SortInputs(state))
        /\ pc' = "didUpdate"

(* variant: a change of the sort order alone does not cause a re-sort *)
componentDidUpdate_IgnoreOrder ==
    LET old == prevState[1]
        needToResort ==
            \/ ~shallowEqualArrays(Some(state.rawFiles), Some(old.rawFiles))
            \/ ~shallowEqualObjects(state.options, old.options)
            \/ state.sortProperty # old.sortProperty
        sorted == sortFiles(state.rawFiles, state.options, state.sortProperty, state.sortOrder)
    IN  /\ pc = "didUpdate"
        /\ IF needToResort
           THEN /\ state' = [state EXCEPT !.sortedFiles = sorted[1], !.fileIndexMap = sorted[2]]
                /\ prevProps' = Some(props)
                /\ prevState' = Some(SortInputs(state))
                /\ last' = [last EXCEPT !.resorts = @ + 1]
                /\ UNCHANGED <<pc, calls>>
           ELSE /\ pc' = "idle"
                /\ prevProps' = NoPrev
                /\ prevState' = NoPrev
                /\ last' = NoEvent
                /\ calls' = NoCalls
                /\ UNCHANGED state
        /\ UNCHANGED props

(* variant: after a re-sort the comparison is still made with the state    *)
(* from before the event                                                   *)
componentDidUpdate_StalePrevState ==
    LET old == prevState[1]
        needToResort ==
            \/ ~shallowEqualArrays(Some(state.rawFiles), Some(old.rawFiles))
            \/ ~shallowEqualObjects(state.options, old.options)
            \/ state.sortProperty # old.sortProperty
            \/ state.sortOrder # old.sortOrder
        sorted == sortFiles(state.rawFiles, state.options, state.sortProperty, state.sortOrder)
    IN  /\ pc = "didUpdate"
        /\ IF needToResort
           THEN /\ state' = [state EXCEPT !.sortedFiles = sorted[1], !.fileIndexMap = sorted[2]]
                /\ last' = [last EXCEPT !.resorts = @ + 1]
                /\ UNCHANGED <<pc, calls, prevProps, prevState>>
           ELSE /\ pc' = "idle"
                /\ prevProps' = NoPrev
                /\ prevState' = NoPrev
                /\ last' = NoEvent
                /\ calls' = NoCalls
                /\ UNCHANGED state
        /\ UNCHANGED props

(* After each render of an update the sorted view is recomputed when one   *)
(* of its inputs changed; the setState it makes starts another update.     *)
(* When nothing is left to do the event is over.                           *)
componentDidUpdate ==
    LET old == prevState[1]
        needToResort ==
            \/ ~shallowEqualArrays(Some(state.rawFiles), Some(old.rawFiles))
            \/ ~shallowEqualObjects(state.options, old.options)
            \/ state.sortProperty # old.sortProperty
            \/ state.sortOrder # old.sortOrder
        sorted == sortFiles(state.rawFiles, state.options, state.sortProperty, state.sortOrder)
    IN  /\ pc = "didUpdate"
        /\ IF needToResort
           THEN /\ state' = [state EXCEPT !.sortedFiles = sorted[1], !.fileIndexMap = sorted[2]]
                /\ prevProps' = Some(props)
                /\ prevState' = Some(SortInputs(state))
                /\ last' = [last EXCEPT !.resorts = @ + 1]
                /\ UNCHANGED <<pc, calls>>
           ELSE /\ pc' = "idle"
                /\ prevProps' = NoPrev
                /\ prevState' = NoPrev
                /\ last' = NoEvent
                /\ calls' = NoCalls
                /\ UNCHANGED state
        /\ UNCHANGED props

----------------------------------------------------------------------------
(* Internal controls *)

(* a checkbox of the controls was switched; an updater that returns null   *)
(* schedules no update                                                     *)
setOption(name, value) ==
    IF state.options[name] # value
    THEN /\ state' = [state EXCEPT !.options = Spread(state.options, [k \in {name} |-> value])]
         /\ last' = EventOf("option")
         /\ calls' = NoCalls
         /\ prevProps' = Some(props)
         /\ prevState' = Some(SortInputs(state))
         /\ pc' = "didUpdate"
         /\ UNCHANGED props
    ELSE /\ last' = EventOf("option")
         /\ calls' = NoCalls
         /\ pc' = "returned"
         /\ UNCHANGED <<props, state, prevProps, prevState>>

(* the sort header of the file list was activated *)
activateSortProperty(name) ==
    /\ state' = IF state.sortProperty # name
                THEN [state EXCEPT !.sortProperty = name, !.sortOrder = "Asc"]
                ELSE [state EXCEPT !.sortProperty = name,
                                   !.sortOrder = IF state.sortOrder = "Asc" THEN "Desc" ELSE "Asc"]
    /\ last' = EventOf("sort")
    /\ calls' = NoCalls
    /\ prevProps' = Some(props)
    /\ prevState' = Some(SortInputs(state))
    /\ pc' = "didUpdate"
    /\ UNCHANGED props

----------------------------------------------------------------------------
(* Selection toggles *)

(* prevIndex of the updater of handleSelectionToggle: the previous         *)
(* selection index clamped to the sorted view                              *)
TogglePrevIndex(prev) ==
    IF isNumber(prev.previousSelectionIndex)
    THEN clampIndex(prev.previousSelectionIndex[1], prev.sortedFiles)
    ELSE Undefined

(* the selection type after the fallback of Range to Multiple *)
ToggleType(prev, type) ==
    IF type = "Range" /\ ~isNumber(TogglePrevIndex(prev)) THEN "Multiple" ELSE type

(* the ids of the selectable files shown at the indices indexA..indexB *)
RangeIds(sortedFiles, indexA, indexB) ==
    {At(sortedFiles, i).id : i \in {j \in indexA..indexB :
        /\ ~isNil(At(sortedFiles, j))
        /\ At(sortedFiles, j).selectable # FALSE}}

(* variant: a Single toggle of a selected file keeps the selection *)
ToggleSelection_SingleKeeps(prev, file, displayIndex, type) ==
    LET oldSelection == prev.selection
        oldSelected == file.id \in oldSelection
        t == ToggleType(prev, type)
    IN  CASE t = "Single" ->
                IF oldSelected THEN oldSelection
                ELSE IF file.selectable # FALSE THEN {file.id} ELSE {}
          [] t = "Multiple" ->
                IF oldSelected THEN oldSelection \ {file.id} ELSE oldSelection \cup {file.id}
          [] t = "Range" ->
                LET prevIndex == TogglePrevIndex(prev)[1]
                IN  RangeIds(prev.sortedFiles, Min(prevIndex, displayIndex), Max(prevIndex, displayIndex))

(* variant: a Range toggle starts from the old selection *)
ToggleSelection_RangeAdds(prev, file, displayIndex, type) ==
    LET oldSelection == prev.selection
        oldSelected == file.id \in oldSelection
        t == ToggleType(prev, type)
    IN  CASE t = "Single" ->
                IF ~oldSelected /\ file.selectable # FALSE THEN {file.id} ELSE {}
          [] t = "Multiple" ->
                IF oldSelected THEN oldSelection \ {file.id} ELSE oldSelection \cup {file.id}
          [] t = "Range" ->
                LET prevIndex == TogglePrevIndex(prev)[1]
                IN  oldSelection \cup
                    RangeIds(prev.sortedFiles, Min(prevIndex, displayIndex), Max(prevIndex, displayIndex))

(* variant: the Range bounds are not swapped when the anchor is the larger *)
ToggleSelection_RangeNoSwap(prev, file, displayIndex, type) ==
    LET oldSelection == prev.selection
        oldSelected == file.id \in oldSelection
        t == ToggleType(prev, type)
    IN  CASE t = "Single" ->
                IF ~oldSelected /\ file.selectable # FALSE THEN {file.id} ELSE {}
          [] t = "Multiple" ->
                IF oldSelected THEN oldSelection \ {file.id} ELSE oldSelection \cup {file.id}
          [] t = "Range" ->
                RangeIds(prev.sortedFiles, TogglePrevIndex(prev)[1], displayIndex)

(* variant: a Multiple toggle only ever adds the target *)
ToggleSelection_MultipleAdds(prev, file, displayIndex, type) ==
    LET oldSelection == prev.selection
        oldSelected == file.id \in oldSelection
        t == ToggleType(prev, type)
    IN  CASE t = "Single" ->
                IF ~oldSelected /\ file.selectable # FALSE THEN {file.id} ELSE {}
          [] t = "Multiple" -> oldSelection \cup {file.id}
          [] t = "Range" ->
                LET prevIndex == TogglePrevIndex(prev)[1]
                IN  RangeIds(prev.sortedFiles, Min(prevIndex, displayIndex), Max(prevIndex, displayIndex))

(* newSelection of the updater of handleSelectionToggle *)
ToggleSelection(prev, file, displayIndex, type) ==
    LET oldSelection == prev.selection
        oldSelected == file.id \in oldSelection
        t == ToggleType(prev, type)
    IN  CASE t = "Single" ->
                IF ~oldSelected /\ file.selectable # FALSE THEN {file.id} ELSE {}
          [] t = "Multiple" ->
                IF oldSelected THEN oldSelection \ {file.id} ELSE oldSelection \cup {file.id}
          [] t = "Range" ->
                LET prevIndex == TogglePrevIndex(prev)[1]
                    indexA == Min(prevIndex, displayIndex)
                    indexB == Max(prevIndex, displayIndex)
                IN  RangeIds(prev.sortedFiles, indexA, indexB)

(* variant: the target index is always persisted *)
ToggleIndexToPersist_Target(prev, displayIndex, type) == Some(displayIndex)

(* variant: only a Range toggle keeps the previous index *)
ToggleIndexToPersist_RangeOnly(prev, displayIndex, type) ==
    LET prevIndex == TogglePrevIndex(prev)
    IN  IF ToggleType(prev, type) = "Range" /\ isNumber(prevIndex)
        THEN prevIndex
        ELSE Some(displayIndex)

(* selectionIndexToPersist of the updater of handleSelectionToggle *)
ToggleIndexToPersist(prev, displayIndex, type) ==
    LET prevIndex == TogglePrevIndex(prev)
        t == ToggleType(prev, type)
    IN  IF (t = "Multiple" \/ t = "Range") /\ isNumber(prevIndex)
        THEN prevIndex
        ELSE Some(displayIndex)

(* handleSelectionToggle, called while the event ev is processed and after *)
(* the host callbacks in clicked have been invoked                         *)
handleSelectionToggle(ev, clicked, file, displayIndex, type, hasOnSelectionChange) ==
    IF props.disableSelection = TRUE
    THEN /\ last' = ev
         /\ calls' = clicked
         /\ pc' = "returned"
         /\ UNCHANGED <<props, state, prevProps, prevState>>
    ELSE LET newSelection == ToggleSelection(state, file, displayIndex, type)
         IN  /\ state' = [state EXCEPT
                    !.selection = newSelection,
                    !.previousSelectionIndex = ToggleIndexToPersist(state, displayIndex, type)]
             /\ last' = [ev EXCEPT !.type = type]
             /\ calls' = IF hasOnSelectionChange
                         THEN [clicked EXCEPT !.onSelectionChange = <<newSelection>>]
                         ELSE clicked
             /\ prevProps' = Some(props)
             /\ prevState' = Some(SortInputs(state))
             /\ pc' = "didUpdate"
             /\ UNCHANGED props

----------------------------------------------------------------------------
(* Clicks *)

ClickEvent(ctrlKey, shiftKey) == [ctrlKey |-> ctrlKey, shiftKey |-> shiftKey]

ClickCall(file, displayIndex, event, keyboard) ==
    [file |-> file, displayIndex |-> displayIndex, event |-> event, keyboard |-> keyboard]

(* what the host's click handler does: "absent" when the prop is not a     *)
(* function, otherwise the value it returns (boolean | undefined)          *)
HandlerResults == {"absent", "true", "false", "undefined"}

(* variant: the result of the host's handler is ignored *)
PreventDefault_Never(funcResult) == FALSE

(* preventDefault of the click handlers *)
PreventDefault(funcResult) == funcResult = "true"

(* the SelectionType of a click *)
ClickSelectionType(event) ==
    IF event.shiftKey THEN "Range"
    ELSE IF event.ctrlKey THEN "Multiple" ELSE "Single"

(* handleFileSingleClick; onFileSingleClick is what the host's handler     *)
(* does for this click                                                     *)
handleFileSingleClick(ev, file, displayIndex, event, keyboard, onFileSingleClick, hasOnSelectionChange) ==
    LET clicked == IF onFileSingleClick # "absent"
                   THEN [NoCalls EXCEPT !.onFileSingleClick =
                            <<ClickCall(file, displayIndex, event, keyboard)>>]
                   ELSE NoCalls
        e == [ev EXCEPT !.handler = "single", !.result = onFileSingleClick,
                        !.index = Some(displayIndex),
                        !.onSelectionChange = hasOnSelectionChange]
    IN  IF PreventDefault(onFileSingleClick)
        THEN /\ last' = e
             /\ calls' = clicked
             /\ pc' = "returned"
             /\ UNCHANGED <<props, state, prevProps, prevState>>
        ELSE handleSelectionToggle(e, clicked, file, displayIndex,
                                   ClickSelectionType(event), hasOnSelectionChange)

(* handleFileDoubleClick *)
handleFileDoubleClick(ev, file, displayIndex, event, keyboard, onFileDoubleClick, hasOnFileOpen) ==
    LET clicked == IF onFileDoubleClick # "absent"
                   THEN [NoCalls EXCEPT !.onFileDoubleClick =
                            <<ClickCall(file, displayIndex, event, keyboard)>>]
                   ELSE NoCalls
    IN  /\ last' = [ev EXCEPT !.handler = "double", !.result = onFileDoubleClick,
                              !.index = Some(displayIndex), !.onFileOpen = hasOnFileOpen]
        /\ calls' = IF ~PreventDefault(onFileDoubleClick) /\ hasOnFileOpen /\ file.openable # FALSE
                    THEN [clicked EXCEPT !.onFileOpen = <<file>>]
                    ELSE clicked
        /\ pc' = "returned"
        /\ UNCHANGED <<props, state, prevProps, prevState>>

(* the file list reports a pointer click on the entry shown at displayIndex *)
PointerSingleClick(displayIndex, event, onFileSingleClick, hasOnSelectionChange) ==
    /\ ~isNil(At(state.sortedFiles, displayIndex))
    /\ handleFileSingleClick(EventOf("click"), At(state.sortedFiles, displayIndex), displayIndex,
                             event, FALSE, onFileSingleClick, hasOnSelectionChange)

(* the file list reports a pointer double click on that entry *)
PointerDoubleClick(displayIndex, event, onFileDoubleClick, hasOnFileOpen) ==
    /\ ~isNil(At(state.sortedFiles, displayIndex))
    /\ handleFileDoubleClick(EventOf("click"), At(state.sortedFiles, displayIndex), displayIndex,
                             event, FALSE, onFileDoubleClick, hasOnFileOpen)

----------------------------------------------------------------------------
(* Keyboard *)

Keys == {"Backspace", "Space", "Enter", "Other"}

(* Util.generateInstanceId() of this instance *)
instanceId == "chonky-1"

(* document.activeElement: null, or an element with its data-chonky-file-id *)
(* and data-chonky-instance-id attributes (undefined when not set)         *)
DomElements ==
    {Null} \cup [fileId : {Undefined} \cup {Some(id) : id \in FileIds},
                 instanceId : {Undefined, Some("chonky-1"), Some("chonky-2")}]

(* variant: an element of any instance is accepted *)
ForThisInstance_Any(elemInstanceId) == isString(elemInstanceId)

(* the focused element belongs to this instance *)
ForThisInstance(elemInstanceId) ==
    isString(elemInstanceId) /\ elemInstanceId[1] = instanceId

(* variant: the keyboard sends a plain click *)
KeyboardClickEvent_Plain == ClickEvent(FALSE, FALSE)

(* clickEvent of handleKeyPress *)
KeyboardClickEvent == ClickEvent(TRUE, FALSE)

(* variant: the last folder of the chain is taken for the parent *)
ParentFolder_Last(folderChain) == getNonNil(folderChain, -1)

(* parentFolder of handleKeyPress *)
ParentFolder(folderChain) == getNonNil(folderChain, -2)

(* handleKeyPress for a key-down of key while activeElem has the focus;    *)
(* onFileSingleClick and onFileDoubleClick are what the host's click       *)
(* handlers do, hasOnFileOpen and hasOnSelectionChange tell whether the    *)
(* props are functions                                                     *)
handleKeyPress(key, activeElem, onFileSingleClick, onFileDoubleClick, hasOnFileOpen, hasOnSelectionChange) ==
    LET ev == [EventOf("keyDown") EXCEPT !.key = key, !.elem = activeElem,
                                         !.onFileOpen = hasOnFileOpen,
                                         !.onSelectionChange = hasOnSelectionChange]
        ignored ==
            /\ last' = ev
            /\ calls' = NoCalls
            /\ pc' = "returned"
            /\ UNCHANGED <<props, state, prevProps, prevState>>
        fileId == IF ~isNil(activeElem) THEN activeElem.fileId ELSE Undefined
        elemInstanceId == IF ~isNil(activeElem) THEN activeElem.instanceId ELSE Undefined
        displayIndex == IF isString(fileId) /\ fileId[1] \in DOMAIN state.fileIndexMap
                        THEN Some(state.fileIndexMap[fileId[1]]) ELSE Undefined
        file == At(state.sortedFiles, displayIndex[1])
        clickEvent == KeyboardClickEvent
    IN  IF key \notin {"Backspace", "Space", "Enter"} THEN ignored
        ELSE IF key = "Backspace"
        THEN LET parentFolder == ParentFolder(props.folderChain)
             IN  IF isNil(parentFolder) \/ parentFolder.openable = FALSE THEN ignored
                 ELSE /\ last' = ev
                      /\ calls' = IF hasOnFileOpen
                                  THEN [NoCalls EXCEPT !.onFileOpen = <<parentFolder>>]
                                  ELSE NoCalls
                      /\ pc' = "returned"
                      /\ UNCHANGED <<props, state, prevProps, prevState>>
        ELSE IF ~ForThisInstance(elemInstanceId) THEN ignored
        ELSE IF ~isString(fileId) THEN ignored
        ELSE IF \/ ~isNumber(displayIndex)
                \/ displayIndex[1] < 0
                \/ displayIndex[1] >= Len(state.sortedFiles) THEN ignored
        ELSE IF isNil(file) THEN ignored
        ELSE IF key = "Space"
        THEN handleFileSingleClick(ev, file, displayIndex[1], clickEvent, TRUE,
                                   onFileSingleClick, hasOnSelectionChange)
        ELSE handleFileDoubleClick(ev, file, displayIndex[1], clickEvent, TRUE,
                                   onFileDoubleClick, hasOnFileOpen)

(* the handler returned without scheduling an update: the event is over *)
Returned ==
    /\ pc = "returned"
    /\ pc' = "idle"
    /\ last' = NoEvent
    /\ calls' = NoCalls
    /\ UNCHANGED <<props, state, prevProps, prevState>>

----------------------------------------------------------------------------
(* Specification *)

(* the props the host passes: the data props vary, the presentation props  *)
(* are left to their defaults                                              *)
HostProps ==
    [files : HostFileLists,
     folderChain : HostFolderChains,
     disableSelection : BOOLEAN,
     view : {Undefined},
     options : {Undefined},
     sortProperty : {Undefined},
     sortOrder : {Undefined}]

ClickEvents == {ClickEvent(c, s) : c \in BOOLEAN, s \in BOOLEAN}

Init ==
    /\ props \in HostProps
    /\ state = constructor(props)
    /\ pc = "idle"
    /\ prevProps = NoPrev
    /\ prevState = NoPrev
    /\ last = NoEvent
    /\ calls = NoCalls

(* the event loop is single-threaded: an event is taken when the previous  *)
(* one has been processed to the end                                       *)
ReceiveProps ==
    /\ pc = "idle"
    /\ \E nextProps \in HostProps, hasOnSelectionChange \in BOOLEAN :
          UNSAFE_componentWillReceiveProps(nextProps, hasOnSelectionChange)

DidUpdate == componentDidUpdate

SingleClick ==
    /\ pc = "idle"
    /\ \E displayIndex \in 0..(MaxFiles - 1), event \in ClickEvents,
          onFileSingleClick \in HandlerResults, hasOnSelectionChange \in BOOLEAN :
          PointerSingleClick(displayIndex, event, onFileSingleClick, hasOnSelectionChange)

DoubleClick ==
    /\ pc = "idle"
    /\ \E displayIndex \in 0..(MaxFiles - 1), event \in ClickEvents,
          onFileDoubleClick \in HandlerResults, hasOnFileOpen \in BOOLEAN :
          PointerDoubleClick(displayIndex, event, onFileDoubleClick, hasOnFileOpen)

KeyBackspace ==
    /\ pc = "idle"
    /\ \E activeElem \in DomElements, hasOnFileOpen \in BOOLEAN :
          handleKeyPress("Backspace", activeElem, "absent", "absent", hasOnFileOpen, FALSE)

KeySpace ==
    /\ pc = "idle"
    /\ \E activeElem \in DomElements, onFileSingleClick \in HandlerResults,
          hasOnSelectionChange \in BOOLEAN :
          handleKeyPress("Space", activeElem, onFileSingleClick, "absent", FALSE, hasOnSelectionChange)

KeyEnter ==
    /\ pc = "idle"
    /\ \E activeElem \in DomElements, onFileDoubleClick \in HandlerResults,
          hasOnFileOpen \in BOOLEAN :
          handleKeyPress("Enter", activeElem, "absent", onFileDoubleClick, hasOnFileOpen, FALSE)

KeyOther ==
    /\ pc = "idle"
    /\ \E activeElem \in DomElements :
          handleKeyPress("Other", activeElem, "absent", "absent", FALSE, FALSE)

Next ==
    \/ ReceiveProps
    \/ DidUpdate
    \/ SingleClick
    \/ DoubleClick
    \/ KeyBackspace
    \/ KeySpace
    \/ KeyEnter
    \/ KeyOther
    \/ Returned

Spec == Init /\ [][Next]_vars

----------------------------------------------------------------------------
(* Specification of the sorting: the host also passes the presentation     *)
(* props and the user works the controls of the sorted view                *)

(* option bags of the host (Partial<Options>) *)
OptionBags ==
    { [values |-> [k \in {"FoldersFirst"} |-> FALSE]] }

SortHostProps ==
    [files : HostFileLists,
     folderChain : {Undefined},
     disableSelection : {FALSE},
     view : {Undefined},
     options : {Undefined} \cup {Some(b) : b \in OptionBags},
     sortProperty : {Undefined, Some("Size")},
     sortOrder : {Undefined, Some("Desc")}]

SortInit ==
    /\ props \in SortHostProps
    /\ state = constructor(props)
    /\ pc = "idle"
    /\ prevProps = NoPrev
    /\ prevState = NoPrev
    /\ last = NoEvent
    /\ calls = NoCalls

ReceiveSortProps ==
    /\ pc = "idle"
    /\ \E nextProps \in SortHostProps, hasOnSelectionChange \in BOOLEAN :
          UNSAFE_componentWillReceiveProps(nextProps, hasOnSelectionChange)

ActivateSort ==
    /\ pc = "idle"
    /\ \E name \in SortProperties : activateSortProperty(name)

SetOption ==
    /\ pc = "idle"
    /\ \E value \in BOOLEAN : setOption("FoldersFirst", value)

SortNext ==
    \/ ReceiveSortProps
    \/ DidUpdate
    \/ ActivateSort
    \/ SetOption
    \/ Returned

SortSpec == SortInit /\ [][SortNext]_vars

----------------------------------------------------------------------------
(* Specification of the update cycle: every kind of external event, a host *)
(* that passes a fresh options object on each update, and the scheduling   *)
(* of React, which runs componentDidUpdate after every update it renders   *)
(* and lets every handler return                                           *)

(* option bags that are distinct objects with the same content *)
FreshOptionBags ==
    { [ref |-> r, values |-> [k \in {"FoldersFirst"} |-> FALSE]] : r \in {"a", "b"} }

CycleHostProps ==
    [files : HostFileLists,
     folderChain : {Undefined},
     disableSelection : {FALSE},
     view : {Undefined},
     options : {Undefined} \cup {Some(b) : b \in FreshOptionBags},
     sortProperty : {Undefined},
     sortOrder : {Undefined}]

CycleInit ==
    /\ props \in CycleHostProps
    /\ state = constructor(props)
    /\ pc = "idle"
    /\ prevProps = NoPrev
    /\ prevState = NoPrev
    /\ last = NoEvent
    /\ calls = NoCalls

ReceiveCycleProps ==
    /\ pc = "idle"
    /\ \E nextProps \in CycleHostProps :
          UNSAFE_componentWillReceiveProps(nextProps, TRUE)

CycleClick ==
    /\ pc = "idle"
    /\ \E displayIndex \in 0..(MaxFiles - 1) :
          PointerSingleClick(displayIndex, ClickEvent(FALSE, FALSE), "absent", TRUE)

CycleNext ==
    \/ ReceiveCycleProps
    \/ DidUpdate
    \/ ActivateSort
    \/ SetOption
    \/ CycleClick
    \/ Returned

CycleSpec ==
    /\ CycleInit
    /\ [][CycleNext]_vars
    /\ WF_vars(DidUpdate)
    /\ WF_vars(Returned)

----------------------------------------------------------------------------
(* Vocabulary of the properties *)

(* the ids of the non-null files of an array that may be selected *)
SelectableIdsOf(files) ==
    {files[i].id : i \in {j \in 1..Len(files) : files[j] # Null /\ files[j].selectable # FALSE}}

(* a selection toggle has just written the state *)
Toggled(type) == pc = "didUpdate" /\ last.type = type

(* the file a toggle was aimed at and its index in the sorted view *)
TargetIndex == last.index[1]

TargetFile == At(state.sortedFiles, TargetIndex)

(* a Range toggle has just been made from an existing anchor *)
RangeToggled == Toggled("Range") /\ last.anchor # Undefined

RangeLow == Min(last.anchor[1], TargetIndex)

RangeHigh == Max(last.anchor[1], TargetIndex)

(* the id belongs to a file shown within the range of the Range toggle *)
InRange(id) ==
    \E i \in RangeLow..RangeHigh :
        At(state.sortedFiles, i) # Null /\ At(state.sortedFiles, i).id = id

(* a prop update has just been applied and rendered: props are the new    *)
(* props and prevProps the old ones                                        *)
PropsUpdated == pc = "didUpdate" /\ last.op = "props" /\ last.resorts = 0

(* the current folder of a folder chain: its last entry, if any *)
CurrentFolder(folderChain) ==
    IF folderChain = Undefined \/ Len(folderChain[1]) = 0 THEN Null
    ELSE folderChain[1][Len(folderChain[1])]

(* the folder immediately before the current folder, if any *)
ParentOfCurrent(folderChain) ==
    IF folderChain = Undefined \/ Len(folderChain[1]) < 2 THEN Null
    ELSE folderChain[1][Len(folderChain[1]) - 1]

(* what changed in the prop update just applied *)
FolderChanged == CurrentFolder(props.folderChain) # CurrentFolder(prevProps[1].folderChain)

ChainRemoved == props.folderChain = Undefined /\ prevProps[1].folderChain # Undefined

SelectionDisabled == props.disableSelection /\ ~prevProps[1].disableSelection

FilesReplaced == props.files # prevProps[1].files

(* onSelectionChange was invoked exactly once, with the selection given,   *)
(* if the host supplied it                                                 *)
NotifiedOnce(selection) ==
    calls.onSelectionChange = IF last.onSelectionChange THEN <<selection>> ELSE <<>>

(* no callback of the host was invoked *)
NothingInvoked == calls = NoCalls

(* selection and anchor are those the event started from *)
SelectionUntouched ==
    state.selection = last.selection /\ state.previousSelectionIndex = last.anchor

----------------------------------------------------------------------------
(* Properties *)

(* C1: every id in state.selection is the id of a non-null file of the     *)
(* latest file list of the host whose selectable flag is not false.        *)
C1_SelectionInvariant == state.selection \subseteq SelectableIdsOf(props.files)

(* C2: after a toggle in any mode no file of the view with                 *)
(* selectable === false is a member of the selection.                      *)
C2_NonSelectableExclusion ==
    (pc = "didUpdate" /\ last.type \in SelectionType) =>
        \A i \in 1..Len(state.sortedFiles) :
            (state.sortedFiles[i] # Null /\ state.sortedFiles[i].selectable = FALSE)
                => state.sortedFiles[i].id \notin state.selection

(* C3 as stated: a Single toggle of a file that is already selected leaves *)
(* the membership of the selection unchanged.                              *)
C3_SingleKeepsSelection ==
    (Toggled("Single") /\ TargetFile.id \in last.selection) =>
        state.selection = last.selection

(* C3 amended: a Single toggle of a file that is already selected empties  *)
(* the selection, whatever other ids it contained, and the anchor becomes  *)
(* the target index.                                                       *)
C3_SingleClearsSelection ==
    (Toggled("Single") /\ TargetFile.id \in last.selection) =>
        /\ state.selection = {}
        /\ state.previousSelectionIndex = last.index

C3_Witness ==
    /\ Toggled("Single")
    /\ TargetFile.id \in last.selection
    /\ Cardinality(last.selection) >= 2
    /\ state.selection = {}

(* C4 as stated: after a Range toggle with an anchor every id selected     *)
(* before the call that lies outside the range is still selected.          *)
C4_RangeKeepsOutside ==
    RangeToggled =>
        \A id \in last.selection : ~InRange(id) => id \in state.selection

(* C4 amended: a Range toggle with an anchor replaces the selection: every *)
(* id selected after the call lies within the range, so an id selected     *)
(* before the call that lies outside the range is no longer selected.      *)
C4_RangeReplacesSelection ==
    RangeToggled => \A id \in state.selection : InRange(id)

C4_Witness ==
    /\ RangeToggled
    /\ \E id \in last.selection : ~InRange(id)
    /\ state.selection # {}

(* C5: after a Range toggle with anchor a and target t the selection holds *)
(* the id of every non-null selectable file at an index of                 *)
(* min(a,t)..max(a,t) and of no non-selectable file of that interval.      *)
C5_RangeCoverage ==
    RangeToggled =>
        \A i \in RangeLow..RangeHigh :
            LET file == At(state.sortedFiles, i)
            IN  file # Null => (file.id \in state.selection <=> file.selectable # FALSE)

C5_Witness ==
    /\ RangeToggled
    /\ last.anchor[1] > TargetIndex
    /\ RangeHigh - RangeLow >= 2
    /\ \E i \in RangeLow..RangeHigh :
          At(state.sortedFiles, i) # Null /\ At(state.sortedFiles, i).selectable = FALSE
    /\ Cardinality(state.selection) >= 2

(* C6: after a cleaning the selection is exactly the set of the ids that   *)
(* were selected before and belong to a non-null file of the new file list *)
(* whose selectable flag is not false.                                     *)
C6_CleaningIntersects ==
    (PropsUpdated /\ last.status = "NeedsCleaning" /\ FilesReplaced) =>
        state.selection = last.selection \cap SelectableIdsOf(props.files)

C6_Witness ==
    /\ PropsUpdated /\ last.status = "NeedsCleaning" /\ FilesReplaced
    /\ state.selection # {}
    /\ \E id \in last.selection \ state.selection : id \in SelectableIdsOf(prevProps[1].files)
    /\ \E id \in last.selection \ state.selection : id \notin SelectableIdsOf(prevProps[1].files)

(* C7: a prop update in which the current folder changes empties the       *)
(* selection, clears the anchor and invokes onSelectionChange exactly once *)
(* with the empty selection, also when the file list changed as well.      *)
C7_ResetOnNavigation ==
    (PropsUpdated /\ FolderChanged) =>
        /\ state.selection = {}
        /\ state.previousSelectionIndex = Undefined
        /\ NotifiedOnce({})

C7_Witness ==
    /\ PropsUpdated /\ FolderChanged /\ FilesReplaced
    /\ ~props.disableSelection
    /\ last.selection \cap SelectableIdsOf(props.files) # {}
    /\ last.anchor # Undefined
    /\ calls.onSelectionChange = << {} >>
    /\ state.selection = {}

(* C8: a backspace key-down invokes onFileOpen exactly once with the       *)
(* folder before the current one when that parent exists and its openable  *)
(* flag is not false, invokes no host callback otherwise, and leaves       *)
(* selection and anchor unchanged.                                         *)
C8_BackspaceOpensParent ==
    last.key = "Backspace" =>
        LET parent == ParentOfCurrent(props.folderChain)
        IN  /\ SelectionUntouched
            /\ IF parent # Null /\ parent.openable # FALSE /\ last.onFileOpen
               THEN calls = [NoCalls EXCEPT !.onFileOpen = <<parent>>]
               ELSE NothingInvoked

C8_Witness ==
    /\ last.key = "Backspace"
    /\ ParentOfCurrent(props.folderChain) # Null
    /\ calls.onFileOpen = <<ParentOfCurrent(props.folderChain)>>
    /\ state.selection # {}

C10_StatusOk ==
    last.status = "Ok" => (SelectionUntouched /\ calls.onSelectionChange = <<>>)

(* C10 as stated: the status of a prop update is NeedsResetting exactly    *)
(* when the current folder changed or disableSelection became true,        *)
(* otherwise NeedsCleaning exactly when the file list differs, otherwise   *)
(* Ok, and with Ok selection and anchor are unchanged and nothing is       *)
(* reported.                                                               *)
C10_StatusClassification ==
    PropsUpdated =>
        /\ last.status = IF FolderChanged \/ SelectionDisabled THEN "NeedsResetting"
                         ELSE IF FilesReplaced THEN "NeedsCleaning" ELSE "Ok"
        /\ C10_StatusOk

(* C10 amended: the status is NeedsResetting exactly when the current      *)
(* folder changed, or the folder chain was replaced by an absent chain, or *)
(* disableSelection became true; otherwise as stated.                      *)
C10_StatusClassificationAmended ==
    PropsUpdated =>
        /\ last.status = IF FolderChanged \/ ChainRemoved \/ SelectionDisabled THEN "NeedsResetting"
                         ELSE IF FilesReplaced THEN "NeedsCleaning" ELSE "Ok"
        /\ C10_StatusOk

C10_Witness ==
    /\ PropsUpdated
    /\ ChainRemoved /\ ~FolderChanged /\ ~SelectionDisabled
    /\ last.status = "NeedsResetting"
    /\ last.selection # {}
    /\ state.selection = {}

----------------------------------------------------------------------------
(* Properties of the selection toggles *)

(* the selection with the membership of one id inverted *)
Flipped(selection, id) ==
    IF id \in selection THEN selection \ {id} ELSE selection \cup {id}

(* C11: a Multiple toggle on a selectable target inverts the membership of *)
(* the target's id and of no other id, and a second Multiple toggle on the *)
(* same target gives back the selection the first one started from.        *)
C11_MultipleFlip ==
    (Toggled("Multiple") /\ TargetFile.selectable # FALSE) =>
        /\ \A id \in FileIds :
              id \in state.selection <=>
                  IF id = TargetFile.id THEN id \notin last.selection ELSE id \in last.selection
        /\ ToggleSelection(state, TargetFile, TargetIndex, "Multiple") = last.selection

C11_Witness ==
    /\ Toggled("Multiple")
    /\ TargetFile.selectable # FALSE
    /\ TargetFile.id \in last.selection
    /\ Cardinality(last.selection) >= 2
    /\ state.selection # {}

(* C12 as stated: after every Multiple toggle the anchor equals the target *)
(* index of that toggle, whether or not an anchor existed before.          *)
C12_MultipleAnchorIsTarget ==
    Toggled("Multiple") => state.previousSelectionIndex = last.index

(* C12 amended: after a Multiple toggle the anchor is the anchor that      *)
(* existed before the call, and the target index only when none existed.   *)
C12_MultipleKeepsAnchor ==
    Toggled("Multiple") =>
        state.previousSelectionIndex =
            IF last.anchor # Undefined THEN last.anchor ELSE last.index

C12_Witness ==
    /\ Toggled("Multiple")
    /\ last.anchor # Undefined
    /\ last.anchor # last.index
    /\ state.previousSelectionIndex = last.anchor

(* C13: after a Range toggle made while an anchor exists the anchor is     *)
(* still that anchor; a Range toggle made with no anchor acts as a         *)
(* Multiple toggle and the anchor becomes the target index.                *)
C13_RangeAnchor ==
    Toggled("Range") =>
        IF last.anchor # Undefined
        THEN state.previousSelectionIndex = last.anchor
        ELSE /\ state.previousSelectionIndex = last.index
             /\ state.selection = Flipped(last.selection, TargetFile.id)

C13_Witness ==
    /\ Toggled("Range")
    /\ last.anchor # Undefined
    /\ last.anchor # last.index
    /\ Cardinality(state.selection) >= 2
    /\ Cardinality(last.selection) = 1

(* a Range toggle is made with no anchor and becomes a Multiple toggle *)
C13_WitnessNoAnchor ==
    /\ Toggled("Range")
    /\ last.anchor = Undefined
    /\ TargetIndex > 0
    /\ state.selection = {TargetFile.id}

(* C14: a toggle in any mode whose target has selectable === false leaves  *)
(* the selection exactly as it was before the call.                        *)
C14_NonSelectableNoOp ==
    (pc = "didUpdate" /\ last.type \in SelectionType /\ TargetFile.selectable = FALSE) =>
        state.selection = last.selection

----------------------------------------------------------------------------
(* Properties of the prop updates *)

(* a cleaning has just been applied *)
Cleaned == PropsUpdated /\ last.status = "NeedsCleaning"

(* C15: after a cleaning with previous anchor a and a new file list of     *)
(* length n the anchor is a if a < n, n - 1 if a >= n and n > 0, undefined *)
(* if n = 0, and stays undefined when there was none; so it is undefined   *)
(* or an index of the new list.                                            *)
C15_AnchorAfterCleaning ==
    Cleaned =>
        LET n == Len(props.files)
            a == last.anchor
        IN  /\ state.previousSelectionIndex =
                    IF a = Undefined \/ n = 0 THEN Undefined
                    ELSE IF a[1] < n THEN a ELSE Some(n - 1)
            /\ \/ state.previousSelectionIndex = Undefined
               \/ state.previousSelectionIndex[1] \in 0..(n - 1)

C15_Witness ==
    /\ Cleaned
    /\ last.anchor # Undefined
    /\ Len(props.files) > 0
    /\ last.anchor[1] >= Len(props.files)
    /\ state.previousSelectionIndex = Some(Len(props.files) - 1)

(* a cleaning to an empty file list clears the anchor *)
C15_WitnessEmpty ==
    /\ Cleaned
    /\ last.anchor # Undefined
    /\ Len(props.files) = 0
    /\ state.previousSelectionIndex = Undefined

----------------------------------------------------------------------------
(* Properties of the host notification *)

(* the event being processed wrote the selection: a reset, a cleaning, or  *)
(* a toggle that was not blocked                                           *)
SelectionWritten ==
    \/ last.op = "props" /\ last.status \in {"NeedsCleaning", "NeedsResetting"}
    \/ last.type \in SelectionType

(* C16: an event that writes the selection (a reset, a cleaning, a toggle  *)
(* that is not blocked) invokes onSelectionChange exactly once with the    *)
(* selection now stored in the state, also when a cleaning pruned nothing; *)
(* any other event neither invokes it nor changes the selection, so the    *)
(* selection last reported stays equal to the stored one.                  *)
C16_HostNotification ==
    pc # "idle" =>
        IF SelectionWritten
        THEN NotifiedOnce(state.selection)
        ELSE calls.onSelectionChange = <<>> /\ state.selection = last.selection

C16_Witness ==
    /\ Cleaned
    /\ state.selection = last.selection
    /\ state.selection # {}
    /\ calls.onSelectionChange = <<state.selection>>

----------------------------------------------------------------------------
(* Properties of the sorted view *)

(* the sorted view and the index map are those of the sort inputs of the   *)
(* state                                                                   *)
ViewSorted ==
    <<state.sortedFiles, state.fileIndexMap>> =
        sortFiles(state.rawFiles, state.options, state.sortProperty, state.sortOrder)

(* C17: once an update cycle has settled the sorted view and the index map *)
(* are the result of sorting the current raw file list with the current    *)
(* options, sort property and sort order, whatever changed them and also   *)
(* when the selection status of the update was Ok.                         *)
C17_ResortNeverSkipped == pc = "idle" => (ViewSorted /\ state.rawFiles = props.files)

C17_Witness ==
    /\ pc = "didUpdate"
    /\ last.op = "props" /\ last.status = "Ok"
    /\ last.resorts = 1
    /\ state.sortOrder = "Desc"
    /\ state.sortProperty = "Size"
    /\ ~state.options["FoldersFirst"]
    /\ Len(state.sortedFiles) >= 3
    /\ ViewSorted

(* C18: in every state handed to render within an update cycle the sorted  *)
(* view and the index map are those of the raw file list, options, sort    *)
(* property and sort order of that same state.                             *)
C18_NoPartialView == pc = "didUpdate" => ViewSorted

----------------------------------------------------------------------------
(* Properties of the keyboard *)

(* the element carries the identifier of this instance and the id of a     *)
(* file shown in the sorted view                                           *)
KeyResolves(elem) ==
    /\ elem # Null
    /\ elem.instanceId = Some(instanceId)
    /\ elem.fileId # Undefined
    /\ \E i \in 1..Len(state.sortedFiles) :
          state.sortedFiles[i] # Null /\ state.sortedFiles[i].id = elem.fileId[1]

(* C19: a space or enter key-down whose focused element is absent, carries *)
(* no or another instance's identifier, no file id or the id of no file of *)
(* the sorted view changes neither selection nor anchor and invokes no     *)
(* callback of the host.                                                   *)
C19_KeyboardInstanceScoped ==
    (last.op = "keyDown" /\ last.key \in {"Space", "Enter"} /\ ~KeyResolves(last.elem)) =>
        /\ pc = "returned"
        /\ SelectionUntouched
        /\ NothingInvoked

C19_Witness ==
    /\ last.op = "keyDown" /\ last.key = "Space"
    /\ last.elem # Null
    /\ last.elem.instanceId = Some("chonky-2")
    /\ last.elem.fileId # Undefined
    /\ \E i \in 1..Len(state.sortedFiles) :
          /\ state.sortedFiles[i] # Null
          /\ state.sortedFiles[i].id = last.elem.fileId[1]
          /\ state.sortedFiles[i].id \notin state.selection
    /\ last.result = "absent"
    /\ state.selection # {}
    /\ NothingInvoked

(* a space key-down reached handleFileSingleClick *)
SpaceActivated == last.op = "keyDown" /\ last.key = "Space" /\ last.handler = "single"

(* the state the event being processed started from *)
StateBefore ==
    [state EXCEPT !.selection = last.selection, !.previousSelectionIndex = last.anchor]

(* C20: a space key-down on a focused file of this instance acts on        *)
(* selection and anchor as a pointer click on that file with ctrlKey true  *)
(* and shiftKey false: a Multiple toggle that keeps the other selected     *)
(* ids; the host's click handler is called with isKeyboard true.           *)
C20_SpaceIsCtrlClick ==
    SpaceActivated =>
        LET event == ClickEvent(TRUE, FALSE)
        IN  /\ TargetFile # Null /\ last.elem.fileId = Some(TargetFile.id)
            /\ calls.onFileSingleClick =
                    IF last.result # "absent"
                    THEN <<ClickCall(TargetFile, TargetIndex, event, TRUE)>> ELSE <<>>
            /\ (last.result # "true" /\ ~props.disableSelection) =>
                    /\ last.type = "Multiple"
                    /\ state.selection = Flipped(last.selection, TargetFile.id)
                    /\ state.selection =
                           ToggleSelection(StateBefore, TargetFile, TargetIndex,
                                           ClickSelectionType(event))
                    /\ state.previousSelectionIndex =
                           ToggleIndexToPersist(StateBefore, TargetIndex,
                                                ClickSelectionType(event))

C20_Witness ==
    /\ SpaceActivated
    /\ pc = "didUpdate"
    /\ last.selection # {}
    /\ TargetFile.id \notin last.selection
    /\ state.selection = last.selection \cup {TargetFile.id}
    /\ last.anchor # Undefined /\ last.anchor # last.index
    /\ calls.onFileSingleClick # <<>>
    /\ calls.onFileSingleClick[1].keyboard

----------------------------------------------------------------------------
(* Properties of disableSelection *)

(* C21: whenever the host prop disableSelection is true and the update     *)
(* cycle has settled the selection is empty, and while it is true a        *)
(* selection toggle, by pointer or keyboard and in any mode, changes       *)
(* neither selection nor anchor and does not invoke onSelectionChange.     *)
C21_DisabledSelectionEmpty ==
    props.disableSelection =>
        /\ pc = "idle" => state.selection = {}
        /\ last.handler = "single" =>
                /\ pc = "returned"
                /\ SelectionUntouched
                /\ calls.onSelectionChange = <<>>

(* a selection is dropped when the host switches the selection off while   *)
(* replacing the file list                                                 *)
C21_Witness ==
    /\ PropsUpdated
    /\ SelectionDisabled /\ FilesReplaced /\ ~FolderChanged /\ ~ChainRemoved
    /\ last.selection \cap SelectableIdsOf(props.files) # {}
    /\ state.selection = {}

(* a click is made while the selection is switched off *)
C21_WitnessBlocked ==
    /\ props.disableSelection
    /\ last.handler = "single" /\ last.result = "false"
    /\ last.onSelectionChange
    /\ TargetFile.selectable # FALSE
    /\ pc = "returned"

----------------------------------------------------------------------------
(* Properties of the update cycle *)

(* C22: every update cycle reaches quiescence: one external event causes   *)
(* at most one re-sort, the state written by the re-sort does not satisfy  *)
(* the re-sort condition again, and the component then waits for the next  *)
(* event; also when the host passes a fresh options object or file array   *)
(* of equal content.                                                       *)
C22_Quiescence ==
    /\ [](last.resorts <= 1)
    /\ [](pc = "didUpdate" /\ last.resorts = 1 => ViewSorted)
    /\ (pc # "idle") ~> (pc = "idle")

C22_Witness ==
    /\ pc = "didUpdate"
    /\ last.op = "option"
    /\ last.resorts = 1
    /\ state.selection # {}
    /\ Len(state.sortedFiles) >= 3
    /\ state.sortedFiles #
           sortFiles(state.rawFiles,
                     [state.options EXCEPT !["FoldersFirst"] = ~state.options["FoldersFirst"]],
                     state.sortProperty, state.sortOrder)[1]
    /\ ViewSorted

(* the host passes another options object with the content of the old one: *)
(* the options are written again and no re-sort follows                    *)
C22_WitnessFreshOptions ==
    /\ pc = "didUpdate"
    /\ last.op = "props" /\ last.status = "Ok" /\ last.resorts = 0
    /\ props.options # Undefined /\ prevProps[1].options # Undefined
    /\ props.options # prevProps[1].options
    /\ props.options[1].values = prevProps[1].options[1].values
    /\ ViewSorted

====
